---- MODULE Spec2Model ----
(***************************************************************************)
(* LineIntersection (3D Slicer scripted module).                           *)
(*                                                                         *)
(* Two parts are modelled from LineIntersection.py:                        *)
(*  - LineIntersectionLogic.computeClosestPointOfIntersection, as an       *)
(*    operator over exact rationals (a rational is a pair <<n, d>> in      *)
(*    lowest terms with d > 0; a zero denominator stands for the inf/nan   *)
(*    a division by zero produces);                                        *)
(*  - LineIntersectionWidget: setup, the two event handlers and the two    *)
(*    propagation routines, statement by statement, with an explicit call  *)
(*    stack so that the notifications a write delivers synchronously to    *)
(*    the widget's own handlers are part of the behaviour.                 *)
(***************************************************************************)
EXTENDS Integers, Sequences, FiniteSets, TLC

\* ------------------------------------------------------------------------
\* Bounds of the model
\* ------------------------------------------------------------------------
\* number of external events (slider moves, point drags) in one behaviour
MaxEvents == 2
\* the in-range coordinate a user gives a p1/p2 slider or a dragged point
MaxCoord == 1
\* geometry inputs: p1 and p2 have natural coordinates of sum at most MaxP
MaxP == 1
\* geometry inputs: components of d1 range over 0..MaxD, those of d2 are
\* integers of absolute sum at most MaxD
MaxD == 1
\* geometry inputs: scale factors are -1 and 2..MaxK
MaxK == 2

\* ------------------------------------------------------------------------
\* Exact rational arithmetic (double precision abstracted to exact values)
\* ------------------------------------------------------------------------
\* Operators that use an argument several times bind it first
\* (x \in {<<a, b>>}), so that the argument is evaluated once.
Abs(n) == IF n < 0 THEN -n ELSE n

Sgn(n) == IF n < 0 THEN -1 ELSE IF n > 0 THEN 1 ELSE 0

RECURSIVE GCD(_, _)
GCD(a, b) == IF b = 0 THEN a ELSE GCD(b, a % b)

\* n / d in lowest terms, from integers n and d > 0 or d < 0; d = 0 gives
\* the signed infinity or nan of a division by zero
Normalized(n, d) ==
  IF d = 0 THEN <<Sgn(n), 0>>
  ELSE LET g == GCD(Abs(n), Abs(d))
           s == IF d < 0 THEN -1 ELSE 1
       IN  <<(s * n) \div g, (s * d) \div g>>

Rat(n, d) == CHOOSE r \in {Normalized(x[1], x[2]) : x \in {<<n, d>>}} : TRUE

Int2Rat(n) == <<n, 1>>

Zero == <<0, 1>>

RAdd(a, b) ==
  CHOOSE r \in {Rat(x[1][1] * x[2][2] + x[2][1] * x[1][2], x[1][2] * x[2][2]) :
                  x \in {<<a, b>>}} : TRUE

RSub(a, b) ==
  CHOOSE r \in {Rat(x[1][1] * x[2][2] - x[2][1] * x[1][2], x[1][2] * x[2][2]) :
                  x \in {<<a, b>>}} : TRUE

RMul(a, b) ==
  CHOOSE r \in {Rat(x[1][1] * x[2][1], x[1][2] * x[2][2]) :
                  x \in {<<a, b>>}} : TRUE

RDiv(a, b) ==
  CHOOSE r \in {Rat(x[1][1] * x[2][2], x[1][2] * x[2][1]) :
                  x \in {<<a, b>>}} : TRUE

RLess(a, b) == a[1] * b[2] < b[1] * a[2]

\* ------------------------------------------------------------------------
\* numpy vector operations on triples of rationals
\* ------------------------------------------------------------------------
Vec(x, y, z) == <<Int2Rat(x), Int2Rat(y), Int2Rat(z)>>

Origin == <<Zero, Zero, Zero>>

VAdd(a, b) ==
  CHOOSE r \in {[i \in 1..3 |-> RAdd(x[1][i], x[2][i])] : x \in {<<a, b>>}} :
    TRUE

VSub(a, b) ==
  CHOOSE r \in {[i \in 1..3 |-> RSub(x[1][i], x[2][i])] : x \in {<<a, b>>}} :
    TRUE

VScale(t, a) ==
  CHOOSE r \in {[i \in 1..3 |-> RMul(x[1], x[2][i])] : x \in {<<t, a>>}} : TRUE

VHalf(a) ==
  CHOOSE r \in {[i \in 1..3 |-> RDiv(x[i], Int2Rat(2))] : x \in {a}} : TRUE

Dot(a, b) ==
  CHOOSE r \in {RAdd(RAdd(RMul(x[1][1], x[2][1]), RMul(x[1][2], x[2][2])),
                     RMul(x[1][3], x[2][3])) : x \in {<<a, b>>}} : TRUE

Cross(a, b) ==
  CHOOSE r \in {<< RSub(RMul(x[1][2], x[2][3]), RMul(x[1][3], x[2][2])),
                   RSub(RMul(x[1][3], x[2][1]), RMul(x[1][1], x[2][3])),
                   RSub(RMul(x[1][1], x[2][2]), RMul(x[1][2], x[2][1])) >> :
                  x \in {<<a, b>>}} : TRUE

\* determinant of the matrix whose rows are a, b, c
Det(a, b, c) == Dot(a, Cross(b, c))

\* np.linalg.norm(v) == 0: the square root is zero exactly when the sum of
\* squares is
NormIsZero(v) == Dot(v, v) = Zero

\* ------------------------------------------------------------------------
\* LineIntersectionLogic.computeClosestPointOfIntersection
\* ------------------------------------------------------------------------
\* which of the three branches of the computation an input takes
Branch(d1, d2) ==
  IF NormIsZero(d1) \/ NormIsZero(d2) THEN "zero"
  ELSE IF Dot(Cross(d1, d2), Cross(d1, d2)) = Zero THEN "parallel"
  ELSE "general"

\* the projection parameter taken without dividing by d1.d1
ParallelT_notNormalised(p1, d1, p2) == Dot(VSub(p2, p1), d1)

\* the projection taken of p1 - p2 instead of p2 - p1
ParallelT_reversed(p1, d1, p2) == RDiv(Dot(VSub(p1, p2), d1), Dot(d1, d1))

ParallelT(p1, d1, p2) == RDiv(Dot(VSub(p2, p1), d1), Dot(d1, d1))

\* the sum of the foot and p2 returned without halving
ParallelClosest_notHalved(p1, d1, p2) ==
  VAdd(VAdd(p1, VScale(ParallelT(p1, d1, p2), d1)), p2)

ParallelClosest(p1, d1, p2) ==
  VHalf(VAdd(VAdd(p1, VScale(ParallelT(p1, d1, p2), d1)), p2))

\* t1 taken with d1 in the determinant
GeneralT1_usesD1(p1, d1, p2, d2) ==
  LET cross == Cross(d1, d2)
  IN  RDiv(Det(VSub(p2, p1), d1, cross), Dot(cross, cross))

GeneralT1(p1, d1, p2, d2) ==
  LET cross == Cross(d1, d2)
  IN  RDiv(Det(VSub(p2, p1), d2, cross), Dot(cross, cross))

GeneralT2(p1, d1, p2, d2) ==
  LET cross == Cross(d1, d2)
  IN  RDiv(Det(VSub(p2, p1), d1, cross), Dot(cross, cross))

\* c1 measured from p2
GeneralC1_fromP2(p1, d1, p2, d2) ==
  VAdd(p2, VScale(GeneralT1(p1, d1, p2, d2), d1))

GeneralC1(p1, d1, p2, d2) == VAdd(p1, VScale(GeneralT1(p1, d1, p2, d2), d1))

\* the point on line 2 taken at line 1's parameter
GeneralC2_usesT1(p1, d1, p2, d2) ==
  VAdd(p2, VScale(GeneralT1(p1, d1, p2, d2), d2))

GeneralC2(p1, d1, p2, d2) == VAdd(p2, VScale(GeneralT2(p1, d1, p2, d2), d2))

NoDivisor == <<>>

\* the zero-direction test taken with "and" for "or"
closestPointRun_bothZero(p1, d1, p2, d2) ==
  IF NormIsZero(d1) /\ NormIsZero(d2)
  THEN [branch |-> "zero", divisor |-> NoDivisor, result |-> Origin]
  ELSE IF Dot(Cross(d1, d2), Cross(d1, d2)) = Zero
       THEN [branch |-> "parallel", divisor |-> Dot(d1, d1),
             result |-> ParallelClosest(p1, d1, p2)]
       ELSE [branch |-> "general",
             divisor |-> Dot(Cross(d1, d2), Cross(d1, d2)),
             result |-> VHalf(VAdd(GeneralC1(p1, d1, p2, d2),
                                   GeneralC2(p1, d1, p2, d2)))]

\* the zero-direction test left out
closestPointRun_noZeroTest(p1, d1, p2, d2) ==
  IF Dot(Cross(d1, d2), Cross(d1, d2)) = Zero
  THEN [branch |-> "parallel", divisor |-> Dot(d1, d1),
        result |-> ParallelClosest(p1, d1, p2)]
  ELSE [branch |-> "general",
        divisor |-> Dot(Cross(d1, d2), Cross(d1, d2)),
        result |-> VHalf(VAdd(GeneralC1(p1, d1, p2, d2),
                              GeneralC2(p1, d1, p2, d2)))]

\* one execution of the function: the branch taken, the divisor of that
\* branch (np.dot(d1, d1) or denom) and the point returned
closestPointRun(p1, d1, p2, d2) ==
  IF NormIsZero(d1) \/ NormIsZero(d2)
  THEN [branch |-> "zero", divisor |-> NoDivisor, result |-> Origin]
  ELSE IF Dot(Cross(d1, d2), Cross(d1, d2)) = Zero
       THEN [branch |-> "parallel", divisor |-> Dot(d1, d1),
             result |-> ParallelClosest(p1, d1, p2)]
       ELSE [branch |-> "general",
             divisor |-> Dot(Cross(d1, d2), Cross(d1, d2)),
             result |-> VHalf(VAdd(GeneralC1(p1, d1, p2, d2),
                                   GeneralC2(p1, d1, p2, d2)))]

computeClosestPointOfIntersection(p1, d1, p2, d2) ==
  closestPointRun(p1, d1, p2, d2).result

\* ------------------------------------------------------------------------
\* State
\* ------------------------------------------------------------------------
VARIABLES
  phase,              \* "constructed", "setup", "ready", "destroyed"; "logic"
                      \* when only the geometry function is exercised
  stack,              \* call stack of the GUI thread, innermost frame first
  creating,           \* LineIntersectionWidget._creating
  sliders,            \* values of p1Sliders, p2Sliders, d1Sliders, d2Sliders
  pointNode,          \* control point positions of "LineIntersectionPoints"
  locked,             \* per control point: locked in the scene
  modify,             \* StartModify/EndModify state of the point node
  parameterNode,      \* LineIntersectionParameterNode: d1, d2, autoUpdate
  intersectionLabel,  \* text of the output label
  pointNodeObserver,  \* TRUE when the PointModifiedEvent observer is installed
  nEvents,            \* history: external events delivered so far
  cycles,             \* history: closest-point computations since the last
                      \* external event
  before,             \* history: state when an unchanged-sliders event arrived
  gin,                \* geometry function: the input
  gout,               \* geometry function: the returned point
  grun                \* geometry function: the branch taken and its divisor

vars == <<phase, stack, creating, sliders, pointNode, locked, modify,
          parameterNode, intersectionLabel, pointNodeObserver, nEvents,
          cycles, before, gin, gout, grun>>

widgetVars == <<creating, sliders, pointNode, locked, modify, parameterNode,
                intersectionLabel, pointNodeObserver>>

historyVars == <<nEvents, cycles, before>>

geoVars == <<gin, gout, grun>>

NoNode == <<>>

NoSliders == <<>>

NoSnapshot == <<>>

NoInput == <<>>

NoOutput == <<>>

\* the label before its first text (line 109): it shows no coordinates
NoLabel == <<>>

\* ------------------------------------------------------------------------
\* LineIntersectionParameterNode
\* ------------------------------------------------------------------------
D1Default == Vec(1, 0, 0)

D2Default == Vec(0, 1, 0)

AutoUpdateDefault == FALSE

\* the parameter node is stored in the scene: a widget set up on a saved
\* scene finds the directions of the earlier session
SavedDirections == {<<D1Default, D2Default>>, <<D2Default, D2Default>>}

LineIntersectionParameterNode ==
  {[d1 |-> d[1], d2 |-> d[2], autoUpdate |-> u] :
     d \in SavedDirections, u \in BOOLEAN}

\* ------------------------------------------------------------------------
\* Sliders (makeSlider): a slider keeps an assigned value inside [minimum,
\* maximum]; decimals and singleStep set what it displays and how far an
\* arrow key moves it, not which values it holds
\* ------------------------------------------------------------------------
PMinimum == -100

PMaximum == 100

DMinimum == -1

DMaximum == 1

RECURSIVE Pow10(_)
Pow10(n) == IF n = 0 THEN 1 ELSE 10 * Pow10(n - 1)

\* round(x, decimals) of Python: ties to even
Round(x, decimals) ==
  LET m == Pow10(decimals)
      q == (x[1] * m) \div x[2]
      r == (x[1] * m) % x[2]
      up == \/ 2 * r > x[2]
            \/ 2 * r = x[2] /\ q % 2 = 1
  IN  IF x[2] = 0 THEN x ELSE Rat(IF up THEN q + 1 ELSE q, m)

Clamp(x, lo, hi) == IF RLess(x, lo) THEN lo ELSE IF RLess(hi, x) THEN hi ELSE x

Minimum(type) == Int2Rat(IF type = "D" THEN DMinimum ELSE PMinimum)

Maximum(type) == Int2Rat(IF type = "D" THEN DMaximum ELSE PMaximum)

\* the value a slider of the type holds after being assigned v
SliderValue(type, v) == Clamp(v, Minimum(type), Maximum(type))

makeSlider(default, type) == SliderValue(type, default)

SliderType(g) == IF g \in {"d1", "d2"} THEN "D" ELSE "P"

p1Sliders == sliders.p1

p2Sliders == sliders.p2

d1Sliders == sliders.d1

d2Sliders == sliders.d2

\* ------------------------------------------------------------------------
\* Inputs of the environment
\* ------------------------------------------------------------------------
\* values a user gives a p1/p2 slider
PSliderVals == {Zero, Int2Rat(MaxCoord)}

\* values a user gives a d1/d2 slider
DSliderVals == {Int2Rat(c) : c \in DMinimum..DMaximum}

UserVals(g) == IF SliderType(g) = "D" THEN DSliderVals ELSE PSliderVals

\* positions a point is dragged to in the 3D view: the scene does not know
\* the slider range or step
DragTargets ==
  { Vec(MaxCoord, MaxCoord, 0),
    <<<<150, 1>>, Zero, Int2Rat(MaxCoord)>>,
    <<<<1, 16>>, Zero, Zero>> }

\* a point set of the same name left in the scene by an earlier session
SavedPoints == {<<Vec(1, 0, 0), Vec(0, 1, 0), Vec(1, 1, 0)>>}

\* ------------------------------------------------------------------------
\* Call stack
\* ------------------------------------------------------------------------
Frame(fn, pc) ==
  [fn |-> fn, pc |-> pc, p1 |-> Origin, p2 |-> Origin, p3 |-> Origin,
   k |-> 1, wasModifying |-> FALSE]

Top == stack[1]

At(fn, pc) == stack # <<>> /\ Top.fn = fn /\ Top.pc = pc

\* the running frame moves on to pc
Goto(pc) == <<[Top EXCEPT !.pc = pc]>> \o Tail(stack)

\* the running frame calls f and resumes at pc
Call(f, pc) == <<f>> \o Goto(pc)

Propagations == {"updateFromSliders", "updateFromMarkups"}

\* number of propagation routines on the call stack
Depth == Cardinality({i \in 1..Len(stack) : stack[i].fn \in Propagations})

Idle == phase = "ready" /\ stack = <<>> /\ ~creating

\* ------------------------------------------------------------------------
\* The point node (vtkMRMLMarkupsFiducialNode) as the widget uses it
\* ------------------------------------------------------------------------
\* SetNthControlPointPosition(n, pos) by the running frame, which resumes at
\* next: the position is stored and PointModifiedEvent is invoked, at once
\* (the observer runs inside the call) or, between StartModify and EndModify,
\* kept pending
SetNthControlPointPosition(n, pos, next) ==
  /\ pointNode' = [pointNode EXCEPT ![n] = pos]
  /\ IF modify.disabled
     THEN /\ modify' = [modify EXCEPT !.pending = TRUE]
          /\ stack' = Goto(next)
     ELSE /\ UNCHANGED modify
          /\ stack' = IF pointNodeObserver
                      THEN Call(Frame("onMarkupModified", "check"), next)
                      ELSE Goto(next)

\* sl.value = v on channel a of slider group g by the running frame, which
\* resumes at the frame next: valueChanged(double) is emitted, and the
\* connected handler runs inside the assignment, when the value changes
SetSliderValue(g, a, v, next) ==
  LET new == SliderValue(SliderType(g), v)
  IN  /\ sliders' = [sliders EXCEPT ![g][a] = new]
      /\ stack' = IF new # sliders[g][a]
                  THEN <<Frame("onSliderModified", "check"), next>> \o Tail(stack)
                  ELSE <<next>> \o Tail(stack)

\* ------------------------------------------------------------------------
\* LineIntersectionWidget.setup
\* ------------------------------------------------------------------------
\* lines 40-126: find or create the point node, lock P3, build the sliders,
\* install the observer and the slider connections; nothing is observed or
\* connected before the end of this part, so no handler runs inside it
setup ==
  /\ phase = "constructed"
  /\ stack = <<>>
  /\ pointNode' = IF pointNode = NoNode THEN <<Origin, Origin, Origin>>
                  ELSE pointNode
  /\ locked' = [locked EXCEPT ![3] = TRUE]
  /\ creating' = TRUE
  /\ sliders' = [p1 |-> [a \in 1..3 |-> makeSlider(Zero, "P")],
                 p2 |-> [a \in 1..3 |-> makeSlider(Zero, "P")],
                 d1 |-> [a \in 1..3 |-> makeSlider(parameterNode.d1[a], "D")],
                 d2 |-> [a \in 1..3 |-> makeSlider(parameterNode.d2[a], "D")]]
  /\ intersectionLabel' = NoLabel
  /\ pointNodeObserver' = TRUE
  /\ phase' = "setup"
  /\ stack' = <<Frame("setup", "sync")>>
  /\ UNCHANGED <<modify, parameterNode, historyVars, geoVars>>

\* setup without the initial synchronization
setupSync_skipped ==
  /\ At("setup", "sync")
  /\ stack' = Goto("end")
  /\ UNCHANGED <<phase, widgetVars, historyVars, geoVars>>

\* line 129: initial synchronization
setupSync ==
  /\ At("setup", "sync")
  /\ stack' = Call(Frame("updateFromSliders", "begin"), "end")
  /\ UNCHANGED <<phase, widgetVars, historyVars, geoVars>>

\* line 130
setupEnd ==
  /\ At("setup", "end")
  /\ creating' = FALSE
  /\ stack' = Tail(stack)
  /\ phase' = "ready"
  /\ UNCHANGED <<sliders, pointNode, locked, modify, parameterNode,
                 intersectionLabel, pointNodeObserver, historyVars, geoVars>>

\* ------------------------------------------------------------------------
\* LineIntersectionWidget.cleanup: the widget is destroyed
\* ------------------------------------------------------------------------
cleanup ==
  /\ phase = "ready"
  /\ stack = <<>>
  /\ pointNodeObserver' = FALSE
  /\ phase' = "destroyed"
  /\ UNCHANGED <<stack, creating, sliders, pointNode, locked, modify,
                 parameterNode, intersectionLabel, historyVars, geoVars>>

\* ------------------------------------------------------------------------
\* The event handlers
\* ------------------------------------------------------------------------
\* the handler without its guard
onSliderModified_noGuard ==
  /\ At("onSliderModified", "check")
  /\ stack' = Call(Frame("updateFromSliders", "begin"), "return")
  /\ UNCHANGED <<phase, widgetVars, historyVars, geoVars>>

onSliderModified ==
  /\ At("onSliderModified", "check")
  /\ stack' = IF creating THEN Tail(stack)
              ELSE Call(Frame("updateFromSliders", "begin"), "return")
  /\ UNCHANGED <<phase, widgetVars, historyVars, geoVars>>

\* the handler without its guard
onMarkupModified_noGuard ==
  /\ At("onMarkupModified", "check")
  /\ stack' = Call(Frame("updateFromMarkups", "begin"), "return")
  /\ UNCHANGED <<phase, widgetVars, historyVars, geoVars>>

onMarkupModified ==
  /\ At("onMarkupModified", "check")
  /\ stack' = IF creating THEN Tail(stack)
              ELSE Call(Frame("updateFromMarkups", "begin"), "return")
  /\ UNCHANGED <<phase, widgetVars, historyVars, geoVars>>

\* a handler whose propagation has returned returns to the toolkit
handlerReturn ==
  /\ stack # <<>>
  /\ Top.fn \in {"onSliderModified", "onMarkupModified"}
  /\ Top.pc = "return"
  /\ stack' = Tail(stack)
  /\ UNCHANGED <<phase, widgetVars, historyVars, geoVars>>

\* ------------------------------------------------------------------------
\* LineIntersectionWidget.updateFromSliders
\* ------------------------------------------------------------------------
\* lines 162-166
updateFromSlidersBegin ==
  /\ At("updateFromSliders", "begin")
  /\ creating' = TRUE
  /\ stack' = <<[Top EXCEPT !.pc = "setP1", !.p1 = p1Sliders,
                            !.p2 = p2Sliders]>> \o Tail(stack)
  /\ UNCHANGED <<phase, sliders, pointNode, locked, modify, parameterNode,
                 intersectionLabel, pointNodeObserver, historyVars, geoVars>>

\* line 167
updateFromSlidersP1 ==
  /\ At("updateFromSliders", "setP1")
  /\ SetNthControlPointPosition(1, Top.p1, "setP2")
  /\ UNCHANGED <<phase, creating, sliders, locked, parameterNode,
                 intersectionLabel, pointNodeObserver, historyVars, geoVars>>

\* line 168
updateFromSlidersP2 ==
  /\ At("updateFromSliders", "setP2")
  /\ SetNthControlPointPosition(2, Top.p2, "setD")
  /\ UNCHANGED <<phase, creating, sliders, locked, parameterNode,
                 intersectionLabel, pointNodeObserver, historyVars, geoVars>>

\* the directions of the sliders not copied into the parameter node
updateFromSlidersD_notStored ==
  /\ At("updateFromSliders", "setD")
  /\ stack' = Goto("callP3")
  /\ UNCHANGED <<phase, widgetVars, historyVars, geoVars>>

\* lines 171-172
updateFromSlidersD ==
  /\ At("updateFromSliders", "setD")
  /\ parameterNode' = [parameterNode EXCEPT !.d1 = d1Sliders, !.d2 = d2Sliders]
  /\ stack' = Goto("callP3")
  /\ UNCHANGED <<phase, creating, sliders, pointNode, locked, modify,
                 intersectionLabel, pointNodeObserver, historyVars, geoVars>>

\* line 175
updateFromSlidersCallP3 ==
  /\ At("updateFromSliders", "callP3")
  /\ stack' = Call([Frame("updateP3Position", "compute")
                      EXCEPT !.p1 = Top.p1, !.p2 = Top.p2], "end")
  /\ UNCHANGED <<phase, widgetVars, historyVars, geoVars>>

\* the routine returning without clearing the flag
updateFromSlidersEnd_flagKept ==
  /\ At("updateFromSliders", "end")
  /\ stack' = Tail(stack)
  /\ UNCHANGED <<phase, widgetVars, historyVars, geoVars>>

\* line 176
updateFromSlidersEnd ==
  /\ At("updateFromSliders", "end")
  /\ creating' = FALSE
  /\ stack' = Tail(stack)
  /\ UNCHANGED <<phase, sliders, pointNode, locked, modify, parameterNode,
                 intersectionLabel, pointNodeObserver, historyVars, geoVars>>

\* ------------------------------------------------------------------------
\* LineIntersectionWidget.updateFromMarkups
\* ------------------------------------------------------------------------
\* lines 182-186
updateFromMarkupsBegin ==
  /\ At("updateFromMarkups", "begin")
  /\ creating' = TRUE
  /\ stack' = <<[Top EXCEPT !.pc = "setSlider", !.k = 1, !.p1 = pointNode[1],
                            !.p2 = pointNode[2]]>> \o Tail(stack)
  /\ UNCHANGED <<phase, sliders, pointNode, locked, modify, parameterNode,
                 intersectionLabel, pointNodeObserver, historyVars, geoVars>>

\* the value the slider took written back to the point
updateFromMarkupsSlider_writesBack ==
  /\ At("updateFromMarkups", "setSlider")
  /\ LET k == Top.k
         g == IF k <= 3 THEN "p1" ELSE "p2"
         n == IF k <= 3 THEN 1 ELSE 2
         a == IF k <= 3 THEN k ELSE k - 3
         v == IF k <= 3 THEN Top.p1[a] ELSE Top.p2[a]
         next == IF k < 6 THEN [Top EXCEPT !.k = k + 1]
                 ELSE [Top EXCEPT !.pc = "callP3"]
     IN  /\ SetSliderValue(g, a, v, next)
         /\ pointNode' = [pointNode EXCEPT ![n][a] = SliderValue("P", v)]
  /\ UNCHANGED <<phase, creating, locked, modify, parameterNode,
                 intersectionLabel, pointNodeObserver, historyVars, geoVars>>

\* lines 189-192: the k-th of the six assignments of the two loops
updateFromMarkupsSlider ==
  /\ At("updateFromMarkups", "setSlider")
  /\ LET k == Top.k
         g == IF k <= 3 THEN "p1" ELSE "p2"
         a == IF k <= 3 THEN k ELSE k - 3
         v == IF k <= 3 THEN Top.p1[a] ELSE Top.p2[a]
         next == IF k < 6 THEN [Top EXCEPT !.k = k + 1]
                 ELSE [Top EXCEPT !.pc = "callP3"]
     IN  SetSliderValue(g, a, v, next)
  /\ UNCHANGED <<phase, creating, pointNode, locked, modify, parameterNode,
                 intersectionLabel, pointNodeObserver, historyVars, geoVars>>

\* P3 computed from the slider values instead of the positions read
updateFromMarkupsCallP3_fromSliders ==
  /\ At("updateFromMarkups", "callP3")
  /\ stack' = Call([Frame("updateP3Position", "compute")
                      EXCEPT !.p1 = p1Sliders, !.p2 = p2Sliders], "end")
  /\ UNCHANGED <<phase, widgetVars, historyVars, geoVars>>

\* line 195
updateFromMarkupsCallP3 ==
  /\ At("updateFromMarkups", "callP3")
  /\ stack' = Call([Frame("updateP3Position", "compute")
                      EXCEPT !.p1 = Top.p1, !.p2 = Top.p2], "end")
  /\ UNCHANGED <<phase, widgetVars, historyVars, geoVars>>

\* line 196
updateFromMarkupsEnd ==
  /\ At("updateFromMarkups", "end")
  /\ creating' = FALSE
  /\ stack' = Tail(stack)
  /\ UNCHANGED <<phase, sliders, pointNode, locked, modify, parameterNode,
                 intersectionLabel, pointNodeObserver, historyVars, geoVars>>

\* ------------------------------------------------------------------------
\* LineIntersectionWidget.updateP3Position
\* ------------------------------------------------------------------------
\* lines 203-205
updateP3PositionCompute ==
  /\ At("updateP3Position", "compute")
  /\ stack' = <<[Top EXCEPT !.pc = "startModify",
                   !.p3 = computeClosestPointOfIntersection(
                            Top.p1, parameterNode.d1, Top.p2, parameterNode.d2)]>>
              \o Tail(stack)
  /\ cycles' = cycles + 1
  /\ UNCHANGED <<phase, widgetVars, nEvents, before, geoVars>>

\* line 206
updateP3PositionStartModify ==
  /\ At("updateP3Position", "startModify")
  /\ modify' = [modify EXCEPT !.disabled = TRUE]
  /\ stack' = <<[Top EXCEPT !.pc = "setP3", !.wasModifying = modify.disabled]>>
              \o Tail(stack)
  /\ UNCHANGED <<phase, creating, sliders, pointNode, locked, parameterNode,
                 intersectionLabel, pointNodeObserver, historyVars, geoVars>>

\* line 207
updateP3PositionSetP3 ==
  /\ At("updateP3Position", "setP3")
  /\ SetNthControlPointPosition(3, Top.p3, "endModify")
  /\ UNCHANGED <<phase, creating, sliders, locked, parameterNode,
                 intersectionLabel, pointNodeObserver, historyVars, geoVars>>

\* line 208: the pending PointModifiedEvent is invoked
updateP3PositionEndModify ==
  /\ At("updateP3Position", "endModify")
  /\ modify' = [disabled |-> Top.wasModifying,
                pending |-> modify.pending /\ Top.wasModifying]
  /\ stack' = IF modify.pending /\ ~Top.wasModifying /\ pointNodeObserver
              THEN Call(Frame("onMarkupModified", "check"), "label")
              ELSE Goto("label")
  /\ UNCHANGED <<phase, creating, sliders, pointNode, locked, parameterNode,
                 intersectionLabel, pointNodeObserver, historyVars, geoVars>>

\* line 209
updateP3PositionLabel ==
  /\ At("updateP3Position", "label")
  /\ intersectionLabel' = [i \in 1..3 |-> Round(Top.p3[i], 2)]
  /\ stack' = Tail(stack)
  /\ UNCHANGED <<phase, creating, sliders, pointNode, locked, modify,
                 parameterNode, pointNodeObserver, historyVars, geoVars>>

\* ------------------------------------------------------------------------
\* The environment: the user at the sliders and in the 3D view
\* ------------------------------------------------------------------------
CanDeliver == phase = "ready" /\ stack = <<>> /\ nEvents < MaxEvents

Snapshot ==
  [sliders |-> sliders, pointNode |-> pointNode, d1 |-> parameterNode.d1,
   d2 |-> parameterNode.d2]

\* the user moves one slider: valueChanged(double) reaches onSliderModified
SlidersChanged(g, a, v) ==
  /\ CanDeliver
  /\ v # sliders[g][a]
  /\ sliders' = [sliders EXCEPT ![g][a] = SliderValue(SliderType(g), v)]
  /\ stack' = <<Frame("onSliderModified", "check")>>
  /\ nEvents' = nEvents + 1
  /\ cycles' = 0
  /\ before' = NoSnapshot
  /\ UNCHANGED <<phase, creating, pointNode, locked, modify, parameterNode,
                 intersectionLabel, pointNodeObserver, geoVars>>

\* onSliderModified is invoked while every slider has kept its value
SlidersUnchanged ==
  /\ CanDeliver
  /\ stack' = <<Frame("onSliderModified", "check")>>
  /\ nEvents' = nEvents + 1
  /\ cycles' = 0
  /\ before' = Snapshot
  /\ UNCHANGED <<phase, widgetVars, geoVars>>

\* the user drags P1 or P2 (P3 is locked) in the 3D view: PointModifiedEvent
\* reaches onMarkupModified
SpatialPointsChanged(n, pos) ==
  /\ CanDeliver
  /\ ~locked[n]
  /\ pos # pointNode[n]
  /\ pointNode' = [pointNode EXCEPT ![n] = pos]
  /\ stack' = IF pointNodeObserver THEN <<Frame("onMarkupModified", "check")>>
              ELSE <<>>
  /\ nEvents' = nEvents + 1
  /\ cycles' = 0
  /\ before' = NoSnapshot
  /\ UNCHANGED <<phase, creating, sliders, locked, modify, parameterNode,
                 intersectionLabel, pointNodeObserver, geoVars>>

\* ------------------------------------------------------------------------
\* Specification of the widget
\* ------------------------------------------------------------------------
Init ==
  /\ phase = "constructed"
  /\ stack = <<>>
  /\ creating = FALSE
  /\ sliders = NoSliders
  /\ pointNode \in {NoNode} \cup SavedPoints
  /\ locked = IF pointNode = NoNode THEN <<FALSE, FALSE, FALSE>>
              ELSE <<FALSE, FALSE, TRUE>>
  /\ modify = [disabled |-> FALSE, pending |-> FALSE]
  /\ parameterNode \in LineIntersectionParameterNode
  /\ intersectionLabel = NoLabel
  /\ pointNodeObserver = FALSE
  /\ nEvents = 0
  /\ cycles = 0
  /\ before = NoSnapshot
  /\ gin = NoInput
  /\ gout = NoOutput
  /\ grun = NoOutput

Step ==
  \/ setupSync
  \/ setupEnd
  \/ onSliderModified
  \/ onMarkupModified
  \/ handlerReturn
  \/ updateFromSlidersBegin
  \/ updateFromSlidersP1
  \/ updateFromSlidersP2
  \/ updateFromSlidersD
  \/ updateFromSlidersCallP3
  \/ updateFromSlidersEnd
  \/ updateFromMarkupsBegin
  \/ updateFromMarkupsSlider
  \/ updateFromMarkupsCallP3
  \/ updateFromMarkupsEnd
  \/ updateP3PositionCompute
  \/ updateP3PositionStartModify
  \/ updateP3PositionSetP3
  \/ updateP3PositionEndModify
  \/ updateP3PositionLabel

Environment ==
  \/ setup
  \/ cleanup
  \/ \E g \in {"p1", "p2", "d1", "d2"}, a \in 1..3 :
       \E v \in UserVals(g) : SlidersChanged(g, a, v)
  \/ SlidersUnchanged
  \/ \E n \in 1..2, pos \in DragTargets : SpatialPointsChanged(n, pos)

Next == Step \/ Environment

Spec == Init /\ [][Next]_vars

\* ------------------------------------------------------------------------
\* A statement of a propagation ends with an exception: the exception leaves
\* updateP3Position, the propagation routine and the handler (none of them
\* has a try/finally) and is reported by the toolkit's event dispatch
\* ------------------------------------------------------------------------
raise ==
  /\ phase = "ready"
  /\ stack # <<>>
  /\ Top.fn \in Propagations \cup {"updateP3Position"}
  /\ Top.pc \notin {"begin", "end"}
  /\ stack' = <<>>
  /\ UNCHANGED <<phase, widgetVars, historyVars, geoVars>>

NextErr == Next \/ raise

ErrSpec == Init /\ [][NextErr]_vars

\* ------------------------------------------------------------------------
\* Specification of the geometry function alone
\* ------------------------------------------------------------------------
\* integer vectors with components in lo..hi and absolute sum at most r
Ball(lo, hi, r) ==
  {Vec(t[1], t[2], t[3]) :
     t \in {u \in (lo..hi) \X (lo..hi) \X (lo..hi) :
              Abs(u[1]) + Abs(u[2]) + Abs(u[3]) <= r}}

GeoInputs ==
  [p1 : Ball(0, MaxP, MaxP), d1 : Ball(0, MaxD, 3 * MaxD),
   p2 : Ball(0, MaxP, MaxP), d2 : Ball(-MaxD, MaxD, MaxD)]

Scalars == {Int2Rat(-1), Int2Rat(MaxK)}

InitGeo ==
  /\ phase = "logic"
  /\ stack = <<>>
  /\ creating = FALSE
  /\ sliders = NoSliders
  /\ pointNode = NoNode
  /\ locked = <<FALSE, FALSE, FALSE>>
  /\ modify = [disabled |-> FALSE, pending |-> FALSE]
  /\ parameterNode = [d1 |-> D1Default, d2 |-> D2Default,
                      autoUpdate |-> AutoUpdateDefault]
  /\ intersectionLabel = NoLabel
  /\ pointNodeObserver = FALSE
  /\ nEvents = 0
  /\ cycles = 0
  /\ before = NoSnapshot
  /\ gin \in GeoInputs
  /\ gout = NoOutput
  /\ grun = NoOutput

\* logic.computeClosestPointOfIntersection(p1, d1, p2, d2) is called
closestPoint ==
  /\ phase = "logic"
  /\ gout = NoOutput
  /\ \E run \in {closestPointRun(gin.p1, gin.d1, gin.p2, gin.d2)} :
       /\ gout' = run.result
       /\ grun' = [branch |-> run.branch, divisor |-> run.divisor]
  /\ UNCHANGED <<phase, stack, widgetVars, historyVars, gin>>

NextGeo == closestPoint

GeoSpec == InitGeo /\ [][NextGeo]_vars

\* ------------------------------------------------------------------------
\* Properties
\* ------------------------------------------------------------------------
Handlers == {"onSliderModified", "onMarkupModified"}

\* a change notification is being delivered to a handler
Delivered == stack # <<>> /\ Top.fn \in Handlers /\ Top.pc = "check"

\* ... from inside a propagation
Nested == Delivered /\ Depth >= 1

\* the external event that started what is on the call stack
Outermost == stack[Len(stack)].fn

ClosestOfCurrent ==
  computeClosestPointOfIntersection(pointNode[1], parameterNode.d1,
                                    pointNode[2], parameterNode.d2)

\* (C1) In every Idle state after setup, after any sequence of events, the
\* spatial point p3 equals closestPoint(p1, d1, p2, d2) of the current
\* spatial p1, p2 and the stored d1, d2.
C1_P3IsClosestPoint == Idle => pointNode[3] = ClosestOfCurrent

\* p3 has been recomputed for a p1 that the sliders cannot hold
C1_Witness ==
  /\ Idle
  /\ nEvents >= 1
  /\ pointNode[1] # p1Sliders
  /\ pointNode[3] # Origin
  /\ pointNode[3] = ClosestOfCurrent

\* (C2) No recursion: at most one propagation routine is on the call stack,
\* the guard flag is set whenever a notification is delivered from inside a
\* propagation, and each external event causes exactly one closest-point
\* computation.
C2_NoRecursion ==
  /\ Depth <= 1
  /\ Nested => creating
  /\ cycles <= 1
  /\ Idle /\ nEvents > 0 => cycles = 1

\* a point notification is delivered inside a SlidersChanged propagation
C2_Witness ==
  /\ phase = "ready"
  /\ Nested
  /\ Top.fn = "onMarkupModified"
  /\ Outermost = "onSliderModified"

\* (C3) An event delivered while the guard flag is set is ignored: the
\* handler returns and leaves the flag, the sliders, the points, the stored
\* directions and the label unchanged.
C3_IgnoredWhilePropagating ==
  [][Delivered /\ creating =>
       /\ stack' = Tail(stack)
       /\ UNCHANGED <<creating, sliders, pointNode, parameterNode,
                      intersectionLabel>>]_vars

\* a slider notification is delivered inside a SpatialPointsChanged
\* propagation
C3_Witness ==
  /\ phase = "ready"
  /\ Delivered
  /\ creating
  /\ Top.fn = "onSliderModified"
  /\ Outermost = "onMarkupModified"

\* the GUI thread runs a handler to completion: a frame on the call stack
\* always takes its next step
FairSpec == Spec /\ WF_vars(Step)

\* the controller's two states, after setup
Propagating == phase = "ready" /\ creating

\* (C4) Every propagation started by an accepted event runs to completion and
\* returns the controller to Idle: whenever the guard flag is set the
\* controller later reaches a state with an empty call stack and the flag
\* clear, and whenever the call stack is empty after setup (the only states
\* in which an external event is delivered) the flag is clear, so the next
\* external event is accepted.
C4_PropagatingLeadsToIdle ==
  /\ Propagating ~> Idle
  /\ [](phase = "ready" /\ stack = <<>> => ~creating)


\* a second external event has been accepted and has propagated
C4_Witness == Idle /\ nEvents = 2 /\ cycles = 1

\* (C5) The guard is cleared on every exit path of a propagation, also when
\* a step ends with an error: whenever the call stack is empty after setup
\* the flag is clear.
C5_GuardClearedOnError == phase = "ready" /\ stack = <<>> => ~creating

\* (C6) After a change has settled, the spatial p1, p2 and the p1/p2 slider
\* channels hold the same values, for every position a point is dragged to.
C6_SlidersMatchPoints ==
  Idle => pointNode[1] = p1Sliders /\ pointNode[2] = p2Sliders

\* (C7) The write-back of a SlidersChanged propagation is one atomic batch:
\* at every notification the point node delivers during it, p3 equals
\* closestPoint(p1, d1, p2, d2) of the p1, p2 the observer reads.
C7_AtomicWriteBack ==
  phase = "ready" /\ Nested /\ Top.fn = "onMarkupModified"
    /\ Outermost = "onSliderModified"
  => pointNode[3] = ClosestOfCurrent

\* (C8) Idempotence: SlidersChanged with the current slider values, from any
\* reachable Idle state, leaves the sliders, the spatial p1, p2, p3 and the
\* stored d1, d2 unchanged and causes exactly one propagation cycle.
C8_Idempotence ==
  Idle /\ before # NoSnapshot => Snapshot = before /\ cycles = 1

\* gin with the two lines exchanged
SwappedResult ==
  computeClosestPointOfIntersection(gin.p2, gin.d2, gin.p1, gin.d1)

\* parallel nonzero directions, and p2 - p1 has a component along them
Shifted ==
  /\ Branch(gin.d1, gin.d2) = "parallel"
  /\ Dot(VSub(gin.p2, gin.p1), gin.d1) # Zero

\* (C9, as stated) Symmetry: closestPoint(p1, d1, p2, d2) equals
\* closestPoint(p2, d2, p1, d1) for all inputs.
C9_Symmetry == gout # NoOutput => SwappedResult = gout

\* (C9, amended) closestPoint(p1, d1, p2, d2) equals
\* closestPoint(p2, d2, p1, d1) exactly when a direction is zero, or the
\* directions are not parallel, or (p2 - p1).d1 = 0.
C9_SymmetryUnlessShifted == gout # NoOutput => (SwappedResult = gout <=> ~Shifted)

\* distinct parallel lines whose results agree under the exchange
C9_Witness ==
  /\ gout # NoOutput
  /\ Branch(gin.d1, gin.d2) = "parallel"
  /\ ~Shifted
  /\ gin.p1 # gin.p2
  /\ SwappedResult = gout

\* (C10) Scale invariance: for every nonzero k, closestPoint(p1, k*d1, p2,
\* d2) and closestPoint(p1, d1, p2, k*d2) equal closestPoint(p1, d1, p2, d2).
C10_ScaleInvariance ==
  gout # NoOutput =>
    \A k \in Scalars :
      /\ computeClosestPointOfIntersection(
           gin.p1, VScale(k, gin.d1), gin.p2, gin.d2) = gout
      /\ computeClosestPointOfIntersection(
           gin.p1, gin.d1, gin.p2, VScale(k, gin.d2)) = gout

\* a parallel input whose projection parameter is not zero
C10_Witness == gout # NoOutput /\ Shifted /\ gout # Origin

\* point x lies on the line through p with direction d
OnLine(x, p, d) == Cross(VSub(x, p), d) = Origin

Computed == gout # NoOutput

\* (C11) If d1 or d2 is the zero vector, closestPoint returns (0, 0, 0) for
\* every p1 and p2, and no other branch of the computation is executed.
C11_ZeroDirectionGivesOrigin ==
  Computed /\ (gin.d1 = Origin \/ gin.d2 = Origin) =>
    /\ gout = Origin
    /\ grun.branch = "zero"
    /\ grun.divisor = NoDivisor

\* only d2 is zero and neither point is the origin
C11_Witness ==
  /\ Computed
  /\ gin.d1 # Origin
  /\ gin.d2 = Origin
  /\ gin.p1 # Origin
  /\ gin.p2 # Origin
  /\ gout = Origin

SkewExample ==
  [p1 |-> Vec(0, 0, 0), d1 |-> Vec(1, 0, 0), p2 |-> Vec(0, 0, 1),
   d2 |-> Vec(0, 1, 0)]

\* (C12) For non-parallel lines the computed c1 lies on line 1, c2 on line
\* 2, c2 - c1 is perpendicular to d1 and to d2, and the result is
\* (c1 + c2) / 2; p1=(0,0,0), d1=(1,0,0), p2=(0,0,1), d2=(0,1,0) gives
\* (0, 0, 1/2).
C12_MidpointOfClosestApproach ==
  /\ Computed /\ Branch(gin.d1, gin.d2) = "general" =>
       LET c1 == GeneralC1(gin.p1, gin.d1, gin.p2, gin.d2)
           c2 == GeneralC2(gin.p1, gin.d1, gin.p2, gin.d2)
       IN  /\ grun.branch = "general"
           /\ OnLine(c1, gin.p1, gin.d1)
           /\ OnLine(c2, gin.p2, gin.d2)
           /\ Dot(VSub(c2, c1), gin.d1) = Zero
           /\ Dot(VSub(c2, c1), gin.d2) = Zero
           /\ gout = VHalf(VAdd(c1, c2))
  /\ Computed /\ gin = SkewExample => gout = <<Zero, Zero, <<1, 2>>>>

\* the skew example has been computed
C12_Witness ==
  /\ Computed
  /\ gin = SkewExample
  /\ grun.branch = "general"
  /\ GeneralC1(gin.p1, gin.d1, gin.p2, gin.d2) = Vec(0, 0, 0)
  /\ GeneralC2(gin.p1, gin.d1, gin.p2, gin.d2) = Vec(0, 0, 1)

\* non-parallel lines meet exactly when p2 - p1, d1 and d2 are coplanar
Intersecting ==
  /\ Branch(gin.d1, gin.d2) = "general"
  /\ Det(VSub(gin.p2, gin.p1), gin.d1, gin.d2) = Zero

\* (C13) When the lines are non-parallel and intersect in a point X,
\* closestPoint returns X: the result lies on line 1 and on line 2.
C13_IntersectionPoint ==
  Computed /\ Intersecting =>
    /\ OnLine(gout, gin.p1, gin.d1)
    /\ OnLine(gout, gin.p2, gin.d2)

\* lines that meet in a point which is neither p1 nor p2
C13_Witness ==
  /\ Computed
  /\ Intersecting
  /\ gout # gin.p1
  /\ gout # gin.p2
  /\ OnLine(gout, gin.p1, gin.d1)
  /\ OnLine(gout, gin.p2, gin.d2)

\* the foot of the perpendicular from p2 onto line 1
Foot == VAdd(gin.p1, VScale(ParallelT(gin.p1, gin.d1, gin.p2), gin.d1))

\* (C14) For parallel lines with nonzero directions the result is the
\* midpoint of p2 and the foot of the perpendicular from p2 onto line 1, with
\* t = ((p2 - p1).d1) / (d1.d1); it does not depend on the magnitudes of d1
\* and d2.
C14_ParallelMidpoint ==
  Computed /\ Branch(gin.d1, gin.d2) = "parallel" =>
    /\ grun.branch = "parallel"
    /\ OnLine(Foot, gin.p1, gin.d1)
    /\ Dot(VSub(gin.p2, Foot), gin.d1) = Zero
    /\ gout = VHalf(VAdd(Foot, gin.p2))
    /\ VSub(gout, Foot) = VSub(gin.p2, gout)
    /\ \A k \in Scalars :
         /\ computeClosestPointOfIntersection(
              gin.p1, VScale(k, gin.d1), gin.p2, gin.d2) = gout
         /\ computeClosestPointOfIntersection(
              gin.p1, gin.d1, gin.p2, VScale(k, gin.d2)) = gout

\* distinct parallel lines, p2 neither on line 1 nor opposite p1
C14_Witness ==
  /\ Computed
  /\ Shifted
  /\ ~OnLine(gin.p2, gin.p1, gin.d1)
  /\ Foot # gin.p1
  /\ gout = VHalf(VAdd(Foot, gin.p2))

\* (C15) closestPoint is total: it returns a point of three finite
\* coordinates for every input, and the divisor of the branch executed
\* (d1.d1 in the parallel branch, |d1 x d2|^2 in the non-parallel branch) is
\* never zero.
C15_Total ==
  Computed =>
    /\ DOMAIN gout = 1..3
    /\ \A i \in 1..3 : gout[i][2] > 0
    /\ grun.branch # "zero" => grun.divisor # Zero /\ grun.divisor[2] > 0

\* d1 alone is zero: d1 x d2 is zero as well, and d1.d1 would be the divisor
C15_Witness ==
  /\ Computed
  /\ gin.d1 = Origin
  /\ gin.d2 # Origin
  /\ Cross(gin.d1, gin.d2) = Origin
  /\ grun.divisor = NoDivisor

\* parallel nonzero directions and p2 on line 1
Coincident ==
  /\ Branch(gin.d1, gin.d2) = "parallel"
  /\ OnLine(gin.p2, gin.p1, gin.d1)

\* (C16) For coincident lines the result is a point of the shared line, and
\* it is p1 when p1 = p2; p1=p2=(0,0,0), d1=d2=(1,0,0) gives (0,0,0).
C16_CoincidentLines ==
  Computed /\ Coincident =>
    /\ OnLine(gout, gin.p1, gin.d1)
    /\ gin.p1 = gin.p2 => gout = gin.p1

\* coincident lines given by different points
C16_Witness ==
  /\ Computed
  /\ Coincident
  /\ gin.p1 # gin.p2
  /\ gout # Origin
  /\ OnLine(gout, gin.p1, gin.d1)

\* setup has returned and no event has been delivered yet
SetupFinished == phase = "ready" /\ stack = <<>> /\ nEvents = 0

\* (C17) When setup finishes the controller is Idle, the spatial p1 and p2
\* equal the p1/p2 slider values, which are the origin, and p3 equals
\* closestPoint(p1, d1, p2, d2) for the stored directions, for a new and for
\* an existing point node alike; the notifications delivered during setup
\* start no propagation.
C17_SetupSeeds ==
  /\ SetupFinished =>
       /\ Idle
       /\ p1Sliders = Origin
       /\ p2Sliders = Origin
       /\ pointNode[1] = p1Sliders
       /\ pointNode[2] = p2Sliders
       /\ pointNode[3] = ClosestOfCurrent
       /\ cycles = 1
  /\ phase = "setup" =>
       /\ Delivered => creating
       /\ Depth <= 1
       /\ \A i \in 1..Len(stack) : stack[i].fn # "updateFromMarkups"

\* an existing node: P1 has been overwritten by the initial synchronization,
\* P2 not yet, and the notification of the write is being delivered
C17_Witness ==
  /\ phase = "setup"
  /\ Delivered
  /\ creating
  /\ pointNode[1] = Origin
  /\ pointNode[2] = Vec(0, 1, 0)

\* a propagation started by SpatialPointsChanged is running
MarkupPropagation ==
  phase = "ready" /\ stack # <<>> /\ Outermost = "onMarkupModified"

\* (C18) A SpatialPointsChanged propagation writes only the p1/p2 slider
\* channels, p3 and the output label: the stored d1 and d2, the direction
\* slider channels and the spatial positions of p1 and p2 stay unchanged.
C18_MarkupPropagationFrame ==
  [][MarkupPropagation =>
       /\ parameterNode' = parameterNode
       /\ d1Sliders' = d1Sliders
       /\ d2Sliders' = d2Sliders
       /\ pointNode'[1] = pointNode[1]
       /\ pointNode'[2] = pointNode[2]]_vars

\* the propagation has written the p1 sliders, p3 and the label
C18_Witness ==
  /\ MarkupPropagation
  /\ At("updateFromMarkups", "end")
  /\ p1Sliders = pointNode[1]
  /\ p1Sliders # Origin
  /\ pointNode[3] # Origin
  /\ intersectionLabel = [i \in 1..3 |-> Round(pointNode[3][i], 2)]

\* (C19) In every Idle state after setup the stored d1, d2 equal the d1/d2
\* slider values: the sliders are seeded from the store, a SlidersChanged
\* propagation copies the sliders into the store before p3 is computed, and
\* no other step writes the store or the direction sliders.
C19_StoreMatchesDirectionSliders ==
  /\ [](Idle \/ At("updateP3Position", "compute") =>
          parameterNode.d1 = d1Sliders /\ parameterNode.d2 = d2Sliders)
  /\ [][phase = "constructed" =>
          /\ d1Sliders' = parameterNode.d1
          /\ d2Sliders' = parameterNode.d2]_vars
  /\ [][phase # "constructed" =>
          /\ parameterNode' # parameterNode =>
               At("updateFromSliders", "setD")
          /\ <<d1Sliders', d2Sliders'>> # <<d1Sliders, d2Sliders>> =>
               CanDeliver /\ Delivered' /\ Top'.fn = "onSliderModified"]_vars

\* the user has moved a direction slider and p3 is about to be computed
C19_Witness ==
  /\ phase = "ready"
  /\ At("updateP3Position", "compute")
  /\ Outermost = "onSliderModified"
  /\ parameterNode.d1 = d1Sliders
  /\ parameterNode.d1 # D1Default
  /\ parameterNode.d1 # D2Default

====
